---- MODULE Spec2Model ----
(***************************************************************************)
(* face-fun-studio: the overlay composition and interaction engine.        *)
(*                                                                         *)
(* App (src/src/App.tsx) owns the base-image url and the overlay           *)
(* collection; CanvasStage (src/unnamed/part_001) loads the images,        *)
(* and turns pointer and wheel events into updates of the collection.      *)
(*                                                                         *)
(* Numbers.  Positions are whole pixels.  A scale is held in millionths    *)
(* (0.6 is 600000) and a product of scales is cut to a millionth, where    *)
(* the source rounds it to a double.  A rotation is held in hundredths of  *)
(* a radian (0.08 is 8).  Distances are compared by their squares: for     *)
(* whole pixels Math.sqrt is exact on perfect squares and monotone, so     *)
(* sqrt(a) < sqrt(b) iff a < b and sqrt(a) < 120 iff a < 120 * 120.        *)
(*                                                                         *)
(* Scheduling.  Handlers, effects and promise continuations run one at a   *)
(* time.  An action is one handler together with the effects its state     *)
(* change re-runs (React runs the cleanup of the previous effect, then     *)
(* the effect), or one completion of a decode together with the promise    *)
(* continuations it releases.                                              *)
(***************************************************************************)
EXTENDS Integers, Sequences, FiniteSets, TLC

VARIABLES
    baseUrl,      \* App: baseUrl
    baseImg,      \* CanvasStage: baseImg, the base bitmap slot
    baseLoads,    \* the base-image effect's decodes in flight, oldest first
    overlays,     \* App: overlays, the collection, bottom first
    overlayImgs,  \* CanvasStage: overlayImgs, overlay id -> bitmap
    overlayLoads, \* the overlay effect's batches (Promise.all), oldest first:
                  \* those in flight, and the newest if it was rejected
    drag,         \* CanvasStage: drag
    selectedId,   \* CanvasStage: selectedId
    nextUid,      \* the number of the next overlay id uid() hands out
    nextUrl,      \* the number of the next object url createObjectURL makes
    ticks,        \* wheel events so far (counted by the specifications)
    window,       \* how many of the newest overlay batches the model follows
    clientWidth,  \* containerRef.current.clientWidth, the layout width
    stageSize     \* CanvasStage: stageSize, as memoized at the last render

vars == <<baseUrl, baseImg, baseLoads, overlays, overlayImgs, overlayLoads,
          drag, selectedId, nextUid, nextUrl, ticks, window,
          clientWidth, stageSize>>

(***************************************************************************)
(* Bounds of the model.                                                    *)
(***************************************************************************)
MaxIds == 2        \* Spec: overlays ever created
MaxTicks == 1      \* Spec: wheel events
MaxUploads == 4    \* SpecBase: photos ever uploaded
MaxLoaderIds == 3  \* SpecLoader: overlays ever created
MaxLoads == 2      \* SpecLoader: overlay batches followed
MaxRun == 26       \* SpecWheel: wheel events
MaxDrawIds == 3    \* SpecDraw: overlays ever created
MaxCacheIds == 2   \* SpecCache: overlays ever created

(***************************************************************************)
(* Inputs.                                                                 *)
(***************************************************************************)
\* Pointer positions relative to the canvas (getPointerPos).
Points == {<<300, 300>>, <<300, 180>>}
\* The one position the loader specification clicks at.
LoaderPoints == {<<300, 300>>}
\* The srcs of the overlay catalog that are used.
Catalog == {"/overlays/mustache.png", "/overlays/glasses.png"}
Stickers == {"/overlays/mustache.png"}
\* Math.sign(e.deltaY)
Signs == {-1, 0, 1}
\* Layout widths of the container (its maxWidth is 900).
Widths == {280, 320, 480, 600, 900}

(***************************************************************************)
(* Values.                                                                 *)
(***************************************************************************)
NoId == 0          \* null, where an overlay id is expected
NoUrl == -1        \* undefined baseImageUrl
SampleUrl == 0     \* "/sample-face.jpg"; an uploaded photo's url is 1, 2, ...
NoSrc == ""        \* src of a text overlay (undefined)
NoText == ""       \* text of an image overlay (undefined)

\* The HTMLImageElement loadImage(src) resolves to.
BaseBitmap(url) == [src |-> url]
NoBaseImg == [src |-> NoUrl]
OverlayBitmap(src) == [src |-> src]

NoDrag == [id |-> NoId, offsetX |-> 0, offsetY |-> 0]

Threshold == 120
ScaleMin == 200000
ScaleMax == 4000000
ZoomOut == 92
ZoomIn == 108
RotStep == 8
StageMin == 320
StageMax == 900
DefaultWidth == 600  \* the width taken while containerRef.current is null

(***************************************************************************)
(* tools.ts                                                                *)
(***************************************************************************)
Min(a, b) == IF a < b THEN a ELSE b
Max(a, b) == IF a > b THEN a ELSE b

\* Mutant of clamp: Math.min and Math.max taken for each other.
clampSwapped(n, lo, hi) == Min(lo, Max(hi, n))

clamp(n, lo, hi) == Max(lo, Min(hi, n))

(***************************************************************************)
(* Rendering.  CanvasStage renders again when a state setter is given a    *)
(* new value; nothing makes it render when the layout width changes.       *)
(***************************************************************************)
\* const size = clamp(w, 320, 900); return { w: size, h: size }
StageSize(w) == [w |-> clamp(w, StageMin, StageMax), h |-> clamp(w, StageMin, StageMax)]

\* A render: useMemo takes the size from the width the container has now.
Render ==
    /\ stageSize' = StageSize(clientWidth)
    /\ clientWidth' = clientWidth

\* No state changed (no setter called, or called with the value held).
NoRender == UNCHANGED <<clientWidth, stageSize>>

(***************************************************************************)
(* The image effects of CanvasStage.                                       *)
(***************************************************************************)
RemoveAt(s, i) == [j \in 1..(Len(s) - 1) |-> IF j < i THEN s[j] ELSE s[j + 1]]

\* Mutant of CancelAll: the cleanup does not set the flag.
CancelNone(loads) == loads

\* The cleanup of every earlier run of an effect has run: cancelled = true.
CancelAll(loads) == [i \in 1..Len(loads) |-> [loads[i] EXCEPT !.cancelled = TRUE]]

\* The base-image effect, run for url.
BaseEffect(url) ==
    IF url = NoUrl
    THEN /\ baseImg' = NoBaseImg
         /\ baseLoads' = CancelAll(baseLoads)
    ELSE /\ baseImg' = baseImg
         /\ baseLoads' = Append(CancelAll(baseLoads),
                                [url |-> url, cancelled |-> FALSE])

\* entries: the ids of the image overlays of ovs.
Entries(ovs) ==
    {ovs[i].id : i \in {j \in 1..Len(ovs) : ovs[j].kind = "image" /\ ovs[j].src # NoSrc}}

\* The place in ovs of the overlay with this id.
IndexOf(ovs, id) == CHOOSE i \in 1..Len(ovs) : ovs[i].id = id

\* Mutant of Needed: one decode for each src, and none for a src of which
\* the cache holds a bitmap.
NeededBySrc(ovs, imgs) ==
    LET src(id) == ovs[IndexOf(ovs, id)].src
        held == {imgs[id].src : id \in DOMAIN imgs}
    IN  [id \in {e \in Entries(ovs) :
                    /\ e \notin DOMAIN imgs
                    /\ src(e) \notin held
                    /\ \A f \in Entries(ovs) : src(f) = src(e) => f >= e}
            |-> src(id)]

\* needed: the entries with no bitmap in imgs, each with its src.
Needed(ovs, imgs) ==
    [id \in {e \in Entries(ovs) : e \notin DOMAIN imgs} |-> ovs[IndexOf(ovs, id)].src]

\* The batches the model follows: the newest `window'.  An older batch is
\* cancelled by then; it is taken to have been rejected already.
RECURSIVE Newest(_)
Newest(loads) == IF Len(loads) <= window THEN loads ELSE Newest(Tail(loads))

\* A batch whose Promise.all has not settled.
InFlight(batch) == batch.rejected = NoId

\* The overlay-image effect, run for the collection ovs: the batches in
\* flight are cancelled (a rejected one is done with) and the needed images
\* are loaded as one batch.
OverlayEffect(ovs) ==
    LET needed == Needed(ovs, overlayImgs)
        earlier == CancelAll(SelectSeq(overlayLoads, InFlight))
    IN  overlayLoads' =
            IF DOMAIN needed = {}
            THEN earlier
            ELSE Newest(Append(earlier,
                               [pairs |-> needed, loaded |-> {},
                                cancelled |-> FALSE, rejected |-> NoId]))

\* setOverlays(ovs): the collection is replaced and the overlay effect runs.
SetOverlays(ovs) ==
    /\ overlays' = ovs
    /\ OverlayEffect(ovs)

(***************************************************************************)
(* App                                                                     *)
(***************************************************************************)
OnUpload ==
    /\ baseUrl' = nextUrl
    /\ nextUrl' = nextUrl + 1
    /\ BaseEffect(nextUrl)
    /\ Render
    /\ UNCHANGED <<overlays, overlayImgs, overlayLoads, drag, selectedId, nextUid, ticks, window>>

\* The owner passes no baseImageUrl ("no photo loaded").
NoPhoto ==
    /\ baseUrl # NoUrl
    /\ baseUrl' = NoUrl
    /\ BaseEffect(NoUrl)
    /\ Render
    /\ UNCHANGED <<overlays, overlayImgs, overlayLoads, drag, selectedId, nextUid, nextUrl, ticks, window>>

\* The overlay addOverlay(src) makes, with the id uid("ov") gives it.
NewSticker(id, src) ==
    [id |-> id, kind |-> "image", x |-> 300, y |-> 300,
     scale |-> 600000, rotation |-> 0, src |-> src, text |-> NoText]

\* The overlay addText() makes, with the id uid("txt") gives it.
NewText(id) ==
    [id |-> id, kind |-> "text", x |-> 300, y |-> 80,
     scale |-> 1000000, rotation |-> 0, src |-> NoSrc, text |-> "LOL"]

AddOverlay(src) ==
    /\ SetOverlays(Append(overlays, NewSticker(nextUid, src)))
    /\ nextUid' = nextUid + 1
    /\ Render
    /\ UNCHANGED <<baseUrl, baseImg, baseLoads, overlayImgs, drag, selectedId, nextUrl, ticks, window>>

AddText ==
    /\ SetOverlays(Append(overlays, NewText(nextUid)))
    /\ nextUid' = nextUid + 1
    /\ Render
    /\ UNCHANGED <<baseUrl, baseImg, baseLoads, overlayImgs, drag, selectedId, nextUrl, ticks, window>>

RemoveLast ==
    /\ SetOverlays(IF overlays = <<>> THEN <<>> ELSE SubSeq(overlays, 1, Len(overlays) - 1))
    /\ Render
    /\ UNCHANGED <<baseUrl, baseImg, baseLoads, overlayImgs, drag, selectedId, nextUid, nextUrl, ticks, window>>

ClearAll ==
    /\ SetOverlays(<<>>)
    /\ Render
    /\ UNCHANGED <<baseUrl, baseImg, baseLoads, overlayImgs, drag, selectedId, nextUid, nextUrl, ticks, window>>

(***************************************************************************)
(* Completion of a decode (loadImage settles).                             *)
(***************************************************************************)
\* The decode of baseLoads[i] succeeds: setBaseImg(img) unless cancelled.
BaseLoaded(i) ==
    /\ i \in 1..Len(baseLoads)
    /\ baseImg' = IF baseLoads[i].cancelled THEN baseImg ELSE BaseBitmap(baseLoads[i].url)
    /\ baseLoads' = RemoveAt(baseLoads, i)
    /\ IF baseLoads[i].cancelled THEN NoRender ELSE Render
    /\ UNCHANGED <<baseUrl, overlays, overlayImgs, overlayLoads, drag, selectedId,
                   nextUid, nextUrl, ticks, window>>

\* Mutant of BaseFailed: the catch handler leaves the slot as it is.
BaseFailedKeepsSlot(i) ==
    /\ i \in 1..Len(baseLoads)
    /\ baseLoads' = RemoveAt(baseLoads, i)
    /\ UNCHANGED <<baseUrl, baseImg, overlays, overlayImgs, overlayLoads, drag, selectedId,
                   nextUid, nextUrl, ticks, window, clientWidth, stageSize>>

\* The decode of baseLoads[i] fails: the catch handler runs.
BaseFailed(i) ==
    /\ i \in 1..Len(baseLoads)
    /\ baseImg' = NoBaseImg
    /\ baseLoads' = RemoveAt(baseLoads, i)
    /\ IF baseImg = NoBaseImg THEN NoRender ELSE Render
    /\ UNCHANGED <<baseUrl, overlays, overlayImgs, overlayLoads, drag, selectedId,
                   nextUid, nextUrl, ticks, window>>

\* Mutant of Merge: next starts empty, the entries of prev are dropped.
MergeDropsPrev(prev, pairs) == [id \in DOMAIN pairs |-> OverlayBitmap(pairs[id])]

\* setOverlayImgs(prev => ...): the loaded pairs are written over prev.
Merge(prev, pairs) ==
    [id \in (DOMAIN prev) \cup (DOMAIN pairs) |->
        IF id \in DOMAIN pairs THEN OverlayBitmap(pairs[id]) ELSE prev[id]]

\* The decode of id in batch b succeeds.  When it was the last of the batch,
\* Promise.all resolves and the batch is merged unless cancelled.
OverlayLoaded(b, id) ==
    /\ b \in 1..Len(overlayLoads)
    /\ InFlight(overlayLoads[b])
    /\ id \in (DOMAIN overlayLoads[b].pairs) \ overlayLoads[b].loaded
    /\ LET batch == overlayLoads[b]
           loaded == batch.loaded \cup {id}
       IN  IF loaded = DOMAIN batch.pairs
           THEN /\ overlayImgs' = IF batch.cancelled THEN overlayImgs
                                  ELSE Merge(overlayImgs, batch.pairs)
                /\ overlayLoads' = RemoveAt(overlayLoads, b)
                /\ IF batch.cancelled THEN NoRender ELSE Render
           ELSE /\ overlayImgs' = overlayImgs
                /\ overlayLoads' = [overlayLoads EXCEPT ![b].loaded = loaded]
                /\ NoRender
    /\ UNCHANGED <<baseUrl, baseImg, baseLoads, overlays, drag, selectedId,
                   nextUid, nextUrl, ticks, window>>

\* The decode of id in batch b fails: Promise.all rejects, the catch handler
\* does nothing, and the other decodes of the batch settle unseen.  The
\* batch of the latest run of the effect stays, rejected, until the next run.
OverlayFailed(b, id) ==
    /\ b \in 1..Len(overlayLoads)
    /\ InFlight(overlayLoads[b])
    /\ id \in (DOMAIN overlayLoads[b].pairs) \ overlayLoads[b].loaded
    /\ overlayLoads' = IF overlayLoads[b].cancelled
                       THEN RemoveAt(overlayLoads, b)
                       ELSE [overlayLoads EXCEPT ![b].rejected = id]
    /\ NoRender
    /\ UNCHANGED <<baseUrl, baseImg, baseLoads, overlays, overlayImgs, drag, selectedId,
                   nextUid, nextUrl, ticks, window>>

(***************************************************************************)
(* The interaction handlers of CanvasStage.                                *)
(***************************************************************************)
\* dx * dx + dy * dy, the square of the distance from o's anchor to (x, y).
DistSq(o, x, y) == (o.x - x) * (o.x - x) + (o.y - y) * (o.y - y)

\* best.dist < 120
Within(distSq) == distSq < Threshold * Threshold

NoBest == [id |-> NoId, dist |-> 0]

\* Mutant of PickLoop: an image overlay without a bitmap is passed over.
RECURSIVE PickLoopResolved(_, _, _, _, _)
PickLoopResolved(ovs, i, x, y, best) ==
    IF i > Len(ovs)
    THEN best
    ELSE LET dist == DistSq(ovs[i], x, y)
             shown == ovs[i].kind = "text" \/ ovs[i].id \in DOMAIN overlayImgs
         IN  PickLoopResolved(ovs, i + 1, x, y,
                              IF shown /\ (best.id = NoId \/ dist < best.dist)
                              THEN [id |-> ovs[i].id, dist |-> dist]
                              ELSE best)

\* Mutant of PickLoop: dist <= best.dist, the last of the nearest wins.
RECURSIVE PickLoopLast(_, _, _, _, _)
PickLoopLast(ovs, i, x, y, best) ==
    IF i > Len(ovs)
    THEN best
    ELSE LET dist == DistSq(ovs[i], x, y)
         IN  PickLoopLast(ovs, i + 1, x, y,
                          IF best.id = NoId \/ dist <= best.dist
                          THEN [id |-> ovs[i].id, dist |-> dist]
                          ELSE best)

\* The loop of pickOverlay from index i on: the first overlay of least distance.
RECURSIVE PickLoop(_, _, _, _, _)
PickLoop(ovs, i, x, y, best) ==
    IF i > Len(ovs)
    THEN best
    ELSE LET dist == DistSq(ovs[i], x, y)
         IN  PickLoop(ovs, i + 1, x, y,
                      IF best.id = NoId \/ dist < best.dist
                      THEN [id |-> ovs[i].id, dist |-> dist]
                      ELSE best)

pickOverlay(x, y) ==
    IF Len(overlays) = 0
    THEN NoId
    ELSE LET best == PickLoop(overlays, 1, x, y, NoBest)
         IN  IF best.id # NoId /\ Within(best.dist) THEN best.id ELSE NoId

\* overlays.find(x => x.id === id), for an id of the collection.
Find(ovs, id) == ovs[IndexOf(ovs, id)]

OnPointerDown(p) ==
    LET id == pickOverlay(p[1], p[2])
    IN  /\ selectedId' = id
        /\ drag' = IF id = NoId
                   THEN drag
                   ELSE LET o == Find(overlays, id)
                        IN  [id |-> id, offsetX |-> p[1] - o.x, offsetY |-> p[2] - o.y]
        /\ IF id = NoId /\ selectedId = NoId THEN NoRender ELSE Render
        /\ UNCHANGED <<baseUrl, baseImg, baseLoads, overlays, overlayImgs, overlayLoads,
                       nextUid, nextUrl, ticks, window>>

\* Mutant of Dragged: the anchor jumps to the pointer, the offset is dropped.
DraggedToPointer(o, d, p) == [o EXCEPT !.x = p[1], !.y = p[2]]

\* { ...o, x: p.x - drag.offsetX, y: p.y - drag.offsetY }
Dragged(o, d, p) == [o EXCEPT !.x = p[1] - d.offsetX, !.y = p[2] - d.offsetY]

\* Mutant of Moved: the test of the id is left out.
MovedAll(prev, d, p) == [i \in 1..Len(prev) |-> Dragged(prev[i], d, p)]

\* prev.map(o => o.id === drag.id ? dragged : o)
Moved(prev, d, p) ==
    [i \in 1..Len(prev) |-> IF prev[i].id = d.id THEN Dragged(prev[i], d, p) ELSE prev[i]]

OnPointerMove(p) ==
    /\ drag # NoDrag
    /\ SetOverlays(Moved(overlays, drag, p))
    /\ Render
    /\ UNCHANGED <<baseUrl, baseImg, baseLoads, overlayImgs, drag, selectedId,
                   nextUid, nextUrl, ticks, window>>

\* Mutant of OnPointerUp: the selection is dropped with the drag.
OnPointerUpDeselects ==
    /\ drag' = NoDrag
    /\ selectedId' = NoId
    /\ IF drag = NoDrag /\ selectedId = NoId THEN NoRender ELSE Render
    /\ UNCHANGED <<baseUrl, baseImg, baseLoads, overlays, overlayImgs, overlayLoads,
                   nextUid, nextUrl, ticks, window>>

OnPointerUp ==
    /\ drag' = NoDrag
    /\ IF drag = NoDrag THEN NoRender ELSE Render
    /\ UNCHANGED <<baseUrl, baseImg, baseLoads, overlays, overlayImgs, overlayLoads,
                   selectedId, nextUid, nextUrl, ticks, window>>

\* Mutant of Rotated: the rotation is kept within half a turn.
RotatedWithinHalfTurn(o, delta) ==
    [o EXCEPT !.rotation = clamp(o.rotation + delta * RotStep, -157, 157)]

\* { ...o, rotation: o.rotation + delta * 0.08 }
Rotated(o, delta) == [o EXCEPT !.rotation = o.rotation + delta * RotStep]

\* o.scale * (delta > 0 ? 0.92 : 1.08)
Zoomed(scale, delta) == (scale * (IF delta > 0 THEN ZoomOut ELSE ZoomIn)) \div 100

\* { ...o, scale: clamp(zoomed, 0.2, 4) }
Scaled(o, delta) == [o EXCEPT !.scale = clamp(Zoomed(o.scale, delta), ScaleMin, ScaleMax)]

\* Mutant of Wheeled: the test of the id is left out.
WheeledAll(prev, sel, delta, shiftKey) ==
    [i \in 1..Len(prev) |->
        IF shiftKey THEN Rotated(prev[i], delta) ELSE Scaled(prev[i], delta)]

\* prev.map(o => o.id !== selectedId ? o : e.shiftKey ? rotated : scaled)
Wheeled(prev, sel, delta, shiftKey) ==
    [i \in 1..Len(prev) |->
        IF prev[i].id # sel THEN prev[i]
        ELSE IF shiftKey THEN Rotated(prev[i], delta)
        ELSE Scaled(prev[i], delta)]

\* Without a selection the handler returns at once.
OnWheel(delta, shiftKey) ==
    /\ IF selectedId = NoId
       THEN UNCHANGED <<overlays, overlayLoads>> /\ NoRender
       ELSE SetOverlays(Wheeled(overlays, selectedId, delta, shiftKey)) /\ Render
    /\ UNCHANGED <<baseUrl, baseImg, baseLoads, overlayImgs, drag, selectedId,
                   nextUid, nextUrl, window>>

\* The layout gives the container another width.  No handler listens.
Resize(w) ==
    /\ w # clientWidth
    /\ clientWidth' = w
    /\ UNCHANGED <<baseUrl, baseImg, baseLoads, overlays, overlayImgs, overlayLoads,
                   drag, selectedId, nextUid, nextUrl, ticks, window, stageSize>>

(***************************************************************************)
(* The draw effect: the frame, as the sequence of things painted.          *)
(***************************************************************************)
Paint(what, id) == [what |-> what, id |-> id]

\* strokeRect, when o is the selected overlay.
Outline(o, sel) == IF o.id = sel THEN <<Paint("outline", o.id)>> ELSE <<>>

\* The body of the loop over the overlays, for o.
DrawOverlay(o, imgs, sel) ==
    IF o.kind = "image" /\ o.src # NoSrc
    THEN IF o.id \in DOMAIN imgs
         THEN <<Paint("image", o.id)>> \o Outline(o, sel)
         ELSE <<>>
    ELSE IF o.kind = "text" /\ o.text # NoText
    THEN <<Paint("text", o.id)>> \o Outline(o, sel)
    ELSE <<>>

\* Mutant of DrawOverlays: the collection is painted top first.
RECURSIVE DrawOverlaysTopFirst(_, _, _, _)
DrawOverlaysTopFirst(ovs, i, imgs, sel) ==
    IF i > Len(ovs) THEN <<>>
    ELSE DrawOverlaysTopFirst(ovs, i + 1, imgs, sel) \o DrawOverlay(ovs[i], imgs, sel)

\* for (const o of overlays), from index i on.
RECURSIVE DrawOverlays(_, _, _, _)
DrawOverlays(ovs, i, imgs, sel) ==
    IF i > Len(ovs) THEN <<>>
    ELSE DrawOverlay(ovs[i], imgs, sel) \o DrawOverlays(ovs, i + 1, imgs, sel)

\* The frame painted for this state.
Draw(base, ovs, imgs, sel) ==
    <<Paint("background", NoId)>>
    \o (IF base # NoBaseImg
        THEN <<Paint("base", NoId)>>
        ELSE <<Paint("placeholder", NoId), Paint("label", NoId)>>)
    \o DrawOverlays(ovs, 1, imgs, sel)

\* The frame on the canvas: the draw effect has run after the last render.
Frame == Draw(baseImg, overlays, overlayImgs, selectedId)

(***************************************************************************)
(* Specifications.                                                         *)
(*                                                                         *)
(* The base image (baseUrl, baseImg, baseLoads, nextUrl) is written by     *)
(* OnUpload, NoPhoto, BaseLoaded and BaseFailed only, and these read and   *)
(* write nothing else but the stage size; only the draw effect reads it.   *)
(* It is followed by SpecBase, the size of the stage by SpecStage, the     *)
(* frame by SpecDraw, and the overlays by Spec, SpecLoader, SpecCache,     *)
(* SpecQuiet and SpecWheel.                                                *)
(***************************************************************************)
\* After the first render: the sample photo is being decoded, nothing else.
Mounted ==
    /\ baseUrl = SampleUrl
    /\ baseImg = NoBaseImg
    /\ baseLoads = <<[url |-> SampleUrl, cancelled |-> FALSE]>>
    /\ overlays = <<>>
    /\ overlayImgs = <<>>
    /\ overlayLoads = <<>>
    /\ drag = NoDrag
    /\ selectedId = NoId
    /\ nextUid = 1
    /\ nextUrl = 1
    /\ ticks = 0
    /\ stageSize = StageSize(DefaultWidth)

\* Spec: the whole of the overlay engine, every handler of the canvas and
\* of App's buttons, following the newest overlay batch.
Init == Mounted /\ window = 1 /\ clientWidth = DefaultWidth

Next ==
    \/ \E src \in Stickers : nextUid <= MaxIds /\ AddOverlay(src)
    \/ nextUid <= MaxIds /\ AddText
    \/ RemoveLast
    \/ ClearAll
    \/ \E p \in Points : OnPointerDown(p)
    \/ \E p \in Points : OnPointerMove(p)
    \/ OnPointerUp
    \/ \E delta \in Signs, shiftKey \in BOOLEAN :
           ticks < MaxTicks /\ OnWheel(delta, shiftKey) /\ ticks' = ticks + 1
    \/ \E b \in 1..Len(overlayLoads) : \E id \in DOMAIN overlayLoads[b].pairs :
           OverlayLoaded(b, id)
    \/ \E b \in 1..Len(overlayLoads) : \E id \in DOMAIN overlayLoads[b].pairs :
           OverlayFailed(b, id)

Spec == Init /\ [][Next]_vars

\* SpecBase: the base image.
NextBase ==
    \/ nextUrl <= MaxUploads /\ OnUpload
    \/ NoPhoto
    \/ \E i \in 1..Len(baseLoads) : BaseLoaded(i)
    \/ \E i \in 1..Len(baseLoads) : BaseFailed(i)

SpecBase == Init /\ [][NextBase]_vars

\* SpecStage: the size of the stage, in a container of any width, with the
\* base image as what makes CanvasStage render again.
InitStage == Mounted /\ window = 1 /\ clientWidth \in Widths

NextStage ==
    \/ \E w \in Widths : Resize(w)
    \/ nextUrl <= MaxUploads /\ OnUpload
    \/ \E i \in 1..Len(baseLoads) : BaseLoaded(i)
    \/ \E i \in 1..Len(baseLoads) : BaseFailed(i)

SpecStage == InitStage /\ [][NextStage]_vars

\* SpecDraw: the frame, with the base image and the overlays together:
\* overlays are added, removed, selected and decoded where they were made.
NextDraw ==
    \/ \E src \in Stickers : nextUid <= MaxDrawIds /\ AddOverlay(src)
    \/ nextUid <= MaxDrawIds /\ AddText
    \/ RemoveLast
    \/ \E p \in Points : OnPointerDown(p)
    \/ \E b \in 1..Len(overlayLoads) : \E id \in DOMAIN overlayLoads[b].pairs :
           OverlayLoaded(b, id)
    \/ \E b \in 1..Len(overlayLoads) : \E id \in DOMAIN overlayLoads[b].pairs :
           OverlayFailed(b, id)
    \/ \E i \in 1..Len(baseLoads) : BaseLoaded(i)
    \/ \E i \in 1..Len(baseLoads) : BaseFailed(i)

SpecDraw == Init /\ [][NextDraw]_vars

\* SpecLoader: the overlay images.  More overlays and batches are followed;
\* the pointer stays at one place and the wheel does not turn (deltaY = 0),
\* which changes the collection as any other move or tick does.
InitLoader == Mounted /\ window = MaxLoads /\ clientWidth = DefaultWidth

NextLoader ==
    \/ \E src \in Catalog : nextUid <= MaxLoaderIds /\ AddOverlay(src)
    \/ nextUid <= MaxLoaderIds /\ AddText
    \/ RemoveLast
    \/ ClearAll
    \/ \E p \in LoaderPoints : OnPointerDown(p)
    \/ \E p \in LoaderPoints : OnPointerMove(p)
    \/ OnWheel(0, TRUE) /\ ticks' = ticks
    \/ \E b \in 1..Len(overlayLoads) : \E id \in DOMAIN overlayLoads[b].pairs :
           OverlayLoaded(b, id)
    \/ \E b \in 1..Len(overlayLoads) : \E id \in DOMAIN overlayLoads[b].pairs :
           OverlayFailed(b, id)

SpecLoader == InitLoader /\ [][NextLoader]_vars

\* SpecCache: the overlay images as SpecLoader follows them, for fewer
\* overlays, all of them stickers.
NextCache ==
    \/ \E src \in Catalog : nextUid <= MaxCacheIds /\ AddOverlay(src)
    \/ RemoveLast
    \/ ClearAll
    \/ \E p \in LoaderPoints : OnPointerDown(p)
    \/ \E p \in LoaderPoints : OnPointerMove(p)
    \/ OnWheel(0, TRUE) /\ ticks' = ticks
    \/ \E b \in 1..Len(overlayLoads) : \E id \in DOMAIN overlayLoads[b].pairs :
           OverlayLoaded(b, id)
    \/ \E b \in 1..Len(overlayLoads) : \E id \in DOMAIN overlayLoads[b].pairs :
           OverlayFailed(b, id)

SpecCache == InitLoader /\ [][NextCache]_vars

\* SpecQuiet: SpecCache with the scheduling the browser gives: a decode
\* that is pending settles, it succeeds or fails, after some time.
Settle ==
    \E b \in 1..Len(overlayLoads) : \E id \in DOMAIN overlayLoads[b].pairs :
        OverlayLoaded(b, id) \/ OverlayFailed(b, id)

SpecQuiet == InitLoader /\ [][NextCache]_vars /\ WF_vars(Settle)

\* SpecWheel: long runs of the wheel on one selected overlay, a sticker or
\* a text, as it is after being added, clicked and released.
InitWheel ==
    /\ baseUrl = SampleUrl
    /\ baseImg = NoBaseImg
    /\ baseLoads = <<[url |-> SampleUrl, cancelled |-> FALSE]>>
    /\ \/ \E src \in Stickers :
              /\ overlays = <<NewSticker(1, src)>>
              /\ overlayLoads = <<[pairs |-> (1 :> src), loaded |-> {},
                                  cancelled |-> FALSE, rejected |-> NoId]>>
       \/ /\ overlays = <<NewText(1)>>
          /\ overlayLoads = <<>>
    /\ overlayImgs = <<>>
    /\ drag = NoDrag
    /\ selectedId = 1
    /\ nextUid = 2
    /\ nextUrl = 1
    /\ ticks = 0
    /\ window = 1
    /\ clientWidth = DefaultWidth
    /\ stageSize = StageSize(DefaultWidth)

NextWheel ==
    \E delta \in Signs, shiftKey \in BOOLEAN :
        ticks < MaxRun /\ OnWheel(delta, shiftKey) /\ ticks' = ticks + 1

SpecWheel == InitWheel /\ [][NextWheel]_vars

(***************************************************************************)
(* Claims.                                                                 *)
(***************************************************************************)
\* C1 (SpecBase): a decode of the base image that was superseded by a newer
\* base url never changes the base bitmap slot when it completes, whether
\* it succeeds or fails.
C1_StaleBaseDecodeLeavesSlot ==
    [][\A i \in 1..Len(baseLoads) :
          (baseLoads[i].cancelled /\ (BaseLoaded(i) \/ BaseFailed(i)))
              => baseImg' = baseImg]_vars

\* The batch of the latest run of the overlay effect, while in flight.
Live(batch) == ~batch.cancelled /\ InFlight(batch)

\* C2 (SpecLoader): when the decodes of two image overlays that had no cache
\* entry have both succeeded, and the collection has not changed since they
\* were started, the cache holds for each id the bitmap decoded from its src.
C2_BothDecodedAreCached ==
    \A b \in 1..Len(overlayLoads) :
        Live(overlayLoads[b]) =>
            \A p, q \in overlayLoads[b].loaded :
                p # q =>
                    /\ p \in DOMAIN overlayImgs
                    /\ q \in DOMAIN overlayImgs
                    /\ overlayImgs[p] = OverlayBitmap(overlayLoads[b].pairs[p])
                    /\ overlayImgs[q] = OverlayBitmap(overlayLoads[b].pairs[q])

\* C3 (SpecLoader): the result of each decode is merged into the cache as
\* that decode completes, whatever becomes of the other decodes of its batch.
C3_EachDecodeMergedAsItCompletes ==
    [][\A b \in 1..Len(overlayLoads) : \A id \in DOMAIN overlayLoads[b].pairs :
          (Live(overlayLoads[b]) /\ OverlayLoaded(b, id))
              => id \in DOMAIN overlayImgs']_vars

\* C4 (SpecLoader): once the decode of an overlay id has failed, no later
\* event starts another decode for that id.  (A batch that is in flight
\* after a step taken while the latest batch is rejected was started by
\* that step.)
C4_FailedDecodeNotRetried ==
    [][\A b \in 1..Len(overlayLoads) :
          overlayLoads[b].rejected # NoId =>
              \A c \in 1..Len(overlayLoads') :
                  Live(overlayLoads'[c]) =>
                      overlayLoads[b].rejected \notin DOMAIN overlayLoads'[c].pairs]_vars

\* The least squared distance from (x, y) to an anchor of the collection.
MinDistSq(x, y) ==
    CHOOSE m \in {DistSq(overlays[i], x, y) : i \in 1..Len(overlays)} :
        \A i \in 1..Len(overlays) : m <= DistSq(overlays[i], x, y)

\* C5 (Spec): pickOverlay returns none for an empty collection and when the
\* nearest anchor is more than 120 away, and otherwise (at most 120 away,
\* 120 included) the id of an overlay at the least distance.
C5_HitTest ==
    \A p \in Points :
        LET id == pickOverlay(p[1], p[2])
        IN  IF Len(overlays) = 0 THEN id = NoId
            ELSE IF MinDistSq(p[1], p[2]) > Threshold * Threshold THEN id = NoId
            ELSE /\ id # NoId
                 /\ DistSq(Find(overlays, id), p[1], p[2]) = MinDistSq(p[1], p[2])

\* The pointer-down at p hits an overlay.
Hits(p) == pickOverlay(p[1], p[2]) # NoId

\* C6 (Spec): a pointer-down that hits an overlay records the grab offset,
\* the pointer minus the overlay's position; until the next such
\* pointer-down or a pointer-up the offset stays as it is; and after every
\* pointer-move at p the dragged overlay, while in the collection, is at p
\* minus the offset.
C6_DragInvariant ==
    [][/\ \A p \in Points :
              (OnPointerDown(p) /\ Hits(p)) =>
                  LET o == Find(overlays, pickOverlay(p[1], p[2]))
                  IN  drag' = [id |-> o.id, offsetX |-> p[1] - o.x, offsetY |-> p[2] - o.y]
       /\ (drag # NoDrag /\ drag' # drag) =>
              (OnPointerUp \/ \E p \in Points : OnPointerDown(p) /\ Hits(p))
       /\ \A p \in Points :
              OnPointerMove(p) =>
                  /\ Len(overlays') = Len(overlays)
                  /\ \A i \in 1..Len(overlays) :
                         overlays[i].id = drag.id =>
                             /\ overlays'[i].x = p[1] - drag.offsetX
                             /\ overlays'[i].y = p[2] - drag.offsetY]_vars

\* A text grabbed 100 below its anchor has followed the pointer to (300, 300).
C6_Witness ==
    /\ drag.offsetY = 100
    /\ \E i \in 1..Len(overlays) :
           overlays[i].id = drag.id /\ overlays[i].x = 300 /\ overlays[i].y = 200

\* C7 (Spec): after a pointer-down that hits nothing (the collection is
\* empty or the nearest anchor is more than 120 away), whatever the state
\* before, the selection is none and no drag is in progress.
C7_MissLeavesIdle ==
    [][\A p \in Points :
          (/\ OnPointerDown(p)
           /\ \/ Len(overlays) = 0
              \/ MinDistSq(p[1], p[2]) > Threshold * Threshold)
              => (selectedId' = NoId /\ drag' = NoDrag)]_vars

\* C8 (SpecWheel): a wheel tick without the modifier sets the scale of the
\* selected overlay to its scale times 0.92 (deltaY positive) or 1.08
\* (otherwise), brought into [0.2, 4.0]: one zoom-in tick takes 0.6 to 0.648;
\* a zoom-out tick lowers the scale unless it is 0.2, where it stays, and a
\* zoom-in tick raises it unless it is 4.0, where it stays.
C8_WheelScale ==
    [][\A delta \in Signs :
          OnWheel(delta, FALSE) =>
              /\ Len(overlays') = Len(overlays)
              /\ \A i \in 1..Len(overlays) :
                     overlays[i].id = selectedId =>
                         LET from == overlays[i].scale
                             to == overlays'[i].scale
                             product == IF delta > 0 THEN (from * 92) \div 100
                                        ELSE (from * 108) \div 100
                         IN  /\ to = IF product < 200000 THEN 200000
                                     ELSE IF product > 4000000 THEN 4000000
                                     ELSE product
                             /\ 200000 <= to /\ to <= 4000000
                             /\ (from = 600000 /\ delta <= 0) => to = 648000
                             /\ delta > 0 => (to < from \/ to = 200000)
                             /\ delta <= 0 => (to > from \/ to = 4000000)]_vars

\* Zoom-in ticks have taken the sticker from 0.6 to 4.0, and one more was made.
C8_Witness ==
    /\ overlays[1].kind = "image"
    /\ overlays[1].scale = 4000000
    /\ overlays[1].rotation = 0
    /\ ticks = 26

\* C9 (SpecWheel): a wheel tick with the modifier adds sign(deltaY) * 0.08
\* to the rotation of the selected overlay, whatever the rotation is, and
\* leaves its scale and its position as they are.
C9_WheelRotation ==
    [][\A delta \in Signs :
          OnWheel(delta, TRUE) =>
              /\ Len(overlays') = Len(overlays)
              /\ \A i \in 1..Len(overlays) :
                     overlays[i].id = selectedId =>
                         /\ overlays'[i].rotation = overlays[i].rotation + delta * 8
                         /\ overlays'[i].scale = overlays[i].scale
                         /\ overlays'[i].x = overlays[i].x
                         /\ overlays'[i].y = overlays[i].y]_vars

\* Twenty modifier ticks the same way have added up to 1.6 radians.
C9_Witness ==
    /\ overlays[1].rotation = -160
    /\ overlays[1].scale = 600000
    /\ ticks = 20

\* A step of the canvas or of a decode, not of App's buttons.
EngineStep ==
    \/ \E p \in Points : OnPointerDown(p) \/ OnPointerMove(p)
    \/ OnPointerUp
    \/ \E delta \in Signs, shiftKey \in BOOLEAN : OnWheel(delta, shiftKey)
    \/ \E b \in 1..Len(overlayLoads) : \E id \in DOMAIN overlayLoads[b].pairs :
           OverlayLoaded(b, id) \/ OverlayFailed(b, id)

\* C10 (Spec): a pointer, wheel or decode step keeps the length of the
\* collection and the order of its ids; a pointer-move changes nothing but
\* the position of the dragged overlay, and a wheel tick nothing but the
\* scale, or nothing but the rotation, of the selected overlay.
C10_Frame ==
    [][/\ EngineStep =>
              /\ Len(overlays') = Len(overlays)
              /\ \A i \in 1..Len(overlays) : overlays'[i].id = overlays[i].id
       /\ \A p \in Points :
              OnPointerMove(p) =>
                  \A i \in 1..Len(overlays) :
                      IF overlays[i].id = drag.id
                      THEN overlays'[i] = [overlays[i] EXCEPT !.x = overlays'[i].x,
                                                              !.y = overlays'[i].y]
                      ELSE overlays'[i] = overlays[i]
       /\ \A delta \in Signs, shiftKey \in BOOLEAN :
              OnWheel(delta, shiftKey) =>
                  \A i \in 1..Len(overlays) :
                      IF overlays[i].id = selectedId
                      THEN \/ overlays'[i] = [overlays[i] EXCEPT !.scale = overlays'[i].scale]
                           \/ overlays'[i] = [overlays[i] EXCEPT !.rotation = overlays'[i].rotation]
                      ELSE overlays'[i] = overlays[i]]_vars

\* A text under a sticker has been dragged and zoomed; the sticker is as it
\* was made.
C10_Witness ==
    /\ Len(overlays) = 2
    /\ overlays[1].kind = "text"
    /\ overlays[1].y = 200
    /\ overlays[1].scale = 1080000
    /\ \E src \in Stickers : overlays[2] = NewSticker(overlays[2].id, src)

\* The places of the frame where something of an overlay is painted.
OverlayPaints(f) == {k \in 1..Len(f) : f[k].id # NoId}

\* The overlays that are drawn: texts, and images with a cached bitmap.
DrawnIds ==
    {overlays[i].id : i \in {j \in 1..Len(overlays) :
        \/ overlays[j].kind = "text"
        \/ overlays[j].kind = "image" /\ overlays[j].id \in DOMAIN overlayImgs}}

\* C11 (SpecDraw): every frame starts with the background and then the
\* base image or the placeholder; after these the drawn overlays (texts, and
\* images with a cached bitmap) are painted, each once, in ascending
\* collection index, so a later overlay is painted over an earlier one; an
\* image with no cached bitmap adds nothing to the frame.
C11_PaintOrder ==
    LET f == Frame
        first == IF baseImg # NoBaseImg THEN 3 ELSE 4
    IN  /\ f[1].what = "background"
        /\ f[2].what = IF baseImg # NoBaseImg THEN "base" ELSE "placeholder"
        /\ \A k \in OverlayPaints(f) : k >= first
        /\ \A k \in first..Len(f) : k \in OverlayPaints(f)
        /\ \A k, l \in OverlayPaints(f) :
               k < l => IndexOf(overlays, f[k].id) <= IndexOf(overlays, f[l].id)
        /\ {f[k].id : k \in OverlayPaints(f)} = DrawnIds
        /\ \A id \in DrawnIds :
               Cardinality({k \in OverlayPaints(f) : f[k].id = id /\ f[k].what # "outline"}) = 1

\* Over the base image a text lies under a decoded sticker, and a sticker
\* that is not decoded lies on top and is not painted.
C11_Witness ==
    /\ baseImg # NoBaseImg
    /\ Len(overlays) = 3
    /\ overlays[1].kind = "text"
    /\ overlays[2].kind = "image" /\ overlays[2].id \in DOMAIN overlayImgs
    /\ overlays[3].kind = "image" /\ overlays[3].id \notin DOMAIN overlayImgs
    /\ Len(Frame) = 4

\* C12 (SpecStage): the drawing surface is always a square whose side is
\* the layout width brought into [320, 900], and it is so again after every
\* change of the layout width.
C12_StageFollowsWidth ==
    [][LET side == IF clientWidth' < 320 THEN 320
                   ELSE IF clientWidth' > 900 THEN 900
                   ELSE clientWidth'
       IN  stageSize' = [w |-> side, h |-> side]]_vars

\* C13 (SpecLoader): a batch of overlay decodes that a newer change of the
\* collection has superseded never changes the cache when its decodes
\* complete; at most one batch, the one started by the latest change of the
\* collection, is able to write to the cache, and every change of the cache
\* is made by it.
C13_OverlayStaleSuppression ==
    [][/\ \A b \in 1..Len(overlayLoads) : \A id \in DOMAIN overlayLoads[b].pairs :
              (overlayLoads[b].cancelled /\ OverlayLoaded(b, id))
                  => overlayImgs' = overlayImgs
       /\ \A b \in 1..Len(overlayLoads') :
              ~overlayLoads'[b].cancelled => b = Len(overlayLoads')
       /\ overlayImgs' # overlayImgs =>
              /\ overlayLoads # <<>>
              /\ Live(overlayLoads[Len(overlayLoads)])
              /\ \E id \in DOMAIN overlayLoads[Len(overlayLoads)].pairs :
                     OverlayLoaded(Len(overlayLoads), id)]_vars

\* A superseded batch with a completed decode stands before the batch of
\* the latest change, and nothing of it is in the cache.
C13_Witness ==
    /\ Len(overlayLoads) = 2
    /\ overlayLoads[1].cancelled
    /\ overlayLoads[1].loaded # {}
    /\ Live(overlayLoads[2])
    /\ overlayLoads[2].loaded # {}
    /\ overlayImgs = <<>>

\* C14 (SpecBase): when the decode of the current base url (not superseded)
\* fails, the base bitmap slot is empty afterwards and the frame shows the
\* placeholder; when the base url becomes absent, the slot is empty at once,
\* the frame shows the placeholder and no decode is started (no decode is
\* left that could fill the slot).
C14_BaseFailureEmptiesSlot ==
    [][/\ \A i \in 1..Len(baseLoads) :
              (~baseLoads[i].cancelled /\ BaseFailed(i)) =>
                  /\ baseImg' = NoBaseImg
                  /\ Frame'[2].what = "placeholder"
       /\ NoPhoto =>
              /\ baseImg' = NoBaseImg
              /\ Frame'[2].what = "placeholder"
              /\ Len(baseLoads') = Len(baseLoads)
              /\ \A i \in 1..Len(baseLoads') : baseLoads'[i].cancelled]_vars

\* No photo is loaded: the url of an uploaded photo was taken away while
\* the photo was being decoded.
C14_Witness ==
    /\ baseUrl = NoUrl
    /\ baseImg = NoBaseImg
    /\ nextUrl = 2
    /\ baseLoads = <<[url |-> 1, cancelled |-> TRUE]>>

\* An image overlay of the collection with no bitmap in the cache: its
\* decode is pending or has failed.
Unresolved(ovs, imgs, i) == ovs[i].kind = "image" /\ ovs[i].id \notin DOMAIN imgs

\* The overlay at index i is the one nearest to p, and less than 120 away.
NearestAt(i, p) ==
    /\ DistSq(overlays[i], p[1], p[2]) < 120 * 120
    /\ \A j \in 1..Len(overlays) :
           \/ DistSq(overlays[j], p[1], p[2]) > DistSq(overlays[i], p[1], p[2])
           \/ j >= i /\ DistSq(overlays[j], p[1], p[2]) = DistSq(overlays[i], p[1], p[2])

Ids(ovs) == {ovs[i].id : i \in 1..Len(ovs)}

\* C16 (Spec): a wheel event while nothing is selected, or while the
\* selected id is not in the collection (after undo or clear), leaves the
\* collection as it is; a wheel event with a selected overlay in the
\* collection leaves every other overlay as it is.
C16_WheelNeedsLiveSelection ==
    [][\A delta \in Signs, shiftKey \in BOOLEAN :
          OnWheel(delta, shiftKey) =>
              /\ (selectedId = NoId \/ selectedId \notin Ids(overlays))
                     => overlays' = overlays
              /\ Len(overlays') = Len(overlays)
              /\ \A i \in 1..Len(overlays) :
                     overlays[i].id # selectedId => overlays'[i] = overlays[i]]_vars

\* The wheel has turned; the selected sticker is gone (undo) and the text
\* under it is as it was made.
C16_Witness ==
    /\ ticks = 1
    /\ selectedId # NoId
    /\ selectedId \notin Ids(overlays)
    /\ Len(overlays) = 1
    /\ overlays[1] = NewText(overlays[1].id)

\* C17 (Spec): a pointer-up, in any state, ends the drag and leaves the
\* selection and the collection as they are; no drag begins again but by a
\* pointer-down that hits an overlay; and while no drag is in progress a
\* pointer-move leaves the collection as it is.
C17_PointerUpEndsDrag ==
    [][/\ OnPointerUp =>
              /\ drag' = NoDrag
              /\ selectedId' = selectedId
              /\ overlays' = overlays
       /\ (drag = NoDrag /\ drag' # NoDrag) =>
              \E p \in Points : OnPointerDown(p) /\ Hits(p)
       /\ drag = NoDrag =>
              \A p \in Points : OnPointerMove(p) => overlays' = overlays]_vars

\* A sticker was dragged to (300, 180) and released: it is still selected.
C17_Witness ==
    /\ drag = NoDrag
    /\ Len(overlays) = 1
    /\ overlays[1].kind = "image"
    /\ overlays[1].y = 180
    /\ selectedId = overlays[1].id

\* The image overlays of the collection with no bitmap under their id.
Uncached == {overlays[i].id : i \in {j \in 1..Len(overlays) :
                overlays[j].kind = "image" /\ overlays[j].id \notin DOMAIN overlayImgs}}

CollectionChange ==
    \/ \E src \in Catalog : AddOverlay(src)
    \/ RemoveLast
    \/ ClearAll
    \/ \E p \in LoaderPoints : OnPointerMove(p)
    \/ selectedId # NoId /\ \E delta \in Signs, shiftKey \in BOOLEAN : OnWheel(delta, shiftKey)

\* No decode of the batch of the latest change of the collection has failed.
NoRejected == \A b \in 1..Len(overlayLoads) : InFlight(overlayLoads[b])

\* C19 (SpecQuiet): if from some point on the collection no longer changes
\* and no decode of the batch started by its last change fails, then from
\* some point on every image overlay of the collection has a cache entry,
\* and from some point on the cache no longer changes.
C19_EventualResolution ==
    (<>[][~CollectionChange]_vars /\ <>[]NoRejected)
        => (<>[](Uncached = {}) /\ <>[][overlayImgs' = overlayImgs]_vars)

\* Two stickers are in the cache and no batch is left.
C19_Witness ==
    /\ Len(overlays) = 2
    /\ Uncached = {}
    /\ overlayLoads = <<>>
    /\ overlays[1].src # overlays[2].src

\* The indexes of the overlays at the least distance from p.
NearestIndexes(p) ==
    {i \in 1..Len(overlays) : DistSq(overlays[i], p[1], p[2]) = MinDistSq(p[1], p[2])}

====
